---- MODULE Spec2Model ----
(***************************************************************************)
(* A model of py_img_collage/create.py: discovery of the image paths       *)
(* (get_sorted_image_paths), the command line driver (main) and the        *)
(* compositor (create_collage) with its memory-mapped canvas, its per      *)
(* image try/except, its frombuffer/fromarray finalization and the removal *)
(* of the temporary file.                                                  *)
(*                                                                         *)
(* Characters are Unicode code points (Python str), file names and paths   *)
(* are sequences of code points.  Python floats are IEEE-754 doubles,      *)
(* modelled bit for bit.  A pixel of the canvas is 0 for the               *)
(* transparent white background (255, 255, 255, 0) and idx + 1 for a pixel *)
(* that comes from the resized image of placement index idx.               *)
(***************************************************************************)
EXTENDS Integers, Sequences, FiniteSets, TLC

VARIABLES
    pc,             \* position of the run
    entry,          \* "main" or "create_collage": how create_collage is reached
    tree,           \* the directory tree below root_dir: entry name -> contents
    image_paths,    \* list of image paths (Placement Sequence)
    subfolders,     \* list of subfolder paths
    folder_counts,  \* main: the per-folder counts printed so far
    total_count,    \* main: running total of the per-folder counts
    cell_size,      \* args.cell_size
    total_images,   \* create_collage: len(image_paths)
    ncols, nrows, collage_width, collage_height,
    temp_file,      \* "none", "exists" or "removed"
    collage_array,  \* the memmap: [row, column] -> pixel; << >> before allocation
    idx,            \* loop index of the per-image loop
    orig_w, orig_h, \* size of the image decoded last
    new_w, new_h,   \* size it was resized to
    outcomes,       \* per placement index: what the loop body did with it
    log,            \* what was printed, in order
    collage_image,  \* "none", "frombuffer" or "fromarray"
    output_file,    \* "absent", "partial" or "written"
    exc             \* the exception that left the run, "none" if none

vars == << pc, entry, tree, image_paths, subfolders, folder_counts, total_count,
           cell_size, total_images, ncols, nrows, collage_width, collage_height,
           temp_file, collage_array, idx, orig_w, orig_h, new_w, new_h,
           outcomes, log, collage_image, output_file, exc >>

----------------------------------------------------------------------------
(* Bounds of the model *)

MaxItems == 26      \* largest total_images of the grid specification
MaxGridCell == 4    \* largest cell_size of the grid specification
MaxSide == 49       \* largest image side of the resize specification
MaxCell == 3        \* largest small cell_size of the resize specification

(* argparse default of --cell_size *)
DefaultCellSize == 200

----------------------------------------------------------------------------
(* Integer helpers *)

Max(a, b) == IF a >= b THEN a ELSE b

RECURSIVE Pow2(_)
Pow2(k) == IF k = 0 THEN 1 ELSE 2 * Pow2(k - 1)

----------------------------------------------------------------------------
(* IEEE-754 double arithmetic on positive numbers, round to nearest even.   *)
(* A double is [m |-> <<l1, l2, l3, l4>>, e |-> e]: the 53 bit mantissa in  *)
(* four limbs, most significant first, l1 of 14 bits (its top bit is the    *)
(* leading 1) and l2, l3, l4 of 13 bits; its value is mantissa * 2^(e-52).  *)

LimbBits == 13
Limb == Pow2(LimbBits)

\* mantissa + 1; a carry out of the top limb renormalises to 1.0 * 2^(e+1)
RoundMant(l, e, up) ==
    IF ~up THEN [m |-> l, e |-> e]
    ELSE IF l[4] + 1 < Limb THEN [m |-> <<l[1], l[2], l[3], l[4] + 1>>, e |-> e]
    ELSE IF l[3] + 1 < Limb THEN [m |-> <<l[1], l[2], l[3] + 1, 0>>, e |-> e]
    ELSE IF l[2] + 1 < Limb THEN [m |-> <<l[1], l[2] + 1, 0, 0>>, e |-> e]
    ELSE IF l[1] + 1 < 2 * Limb THEN [m |-> <<l[1] + 1, 0, 0, 0>>, e |-> e]
    ELSE [m |-> <<Limb, 0, 0, 0>>, e |-> e + 1]

\* largest k with b * 2^k <= a, for a >= b >= 1
RECURSIVE FloorLog2Ratio(_, _)
FloorLog2Ratio(a, b) == IF 2 * b <= a THEN 1 + FloorLog2Ratio(a, 2 * b) ELSE 0

\* smallest k with a * 2^k >= b, for a, b >= 1
RECURSIVE CeilLog2Ratio(_, _)
CeilLog2Ratio(a, b) == IF a >= b THEN 0 ELSE 1 + CeilLog2Ratio(2 * a, b)

\* a / b for ints 1 <= a, b < 2^17 (Python true division of ints: the correctly
\* rounded quotient), by long division, one limb at a time
FloatDiv(a, b) ==
    LET e == IF a >= b THEN FloorLog2Ratio(a, b) ELSE 0 - CeilLog2Ratio(a, b)
        N == IF a >= b THEN a ELSE a * Pow2(0 - e)
        D == IF a >= b THEN b * Pow2(e) ELSE b
        l1 == (N * Limb) \div D
        r1 == (N * Limb) % D
        l2 == (r1 * Limb) \div D
        r2 == (r1 * Limb) % D
        l3 == (r2 * Limb) \div D
        r3 == (r2 * Limb) % D
        l4 == (r3 * Limb) \div D
        r4 == (r3 * Limb) % D
        up == 2 * r4 > D \/ (2 * r4 = D /\ l4 % 2 = 1)
    IN RoundMant(<<l1, l2, l3, l4>>, e, up)

\* number of bits of n >= 1
RECURSIVE BitLength(_)
BitLength(n) == IF n <= 1 THEN 1 ELSE 1 + BitLength(n \div 2)

\* w * f for an int 1 <= w < 2^12 (exactly representable) and a double f: the
\* exact product, limb by limb, shifted back to 53 bits and rounded once
FloatMulInt(w, f) ==
    LET t4 == f.m[4] * w
        t3 == f.m[3] * w + (t4 \div Limb)
        t2 == f.m[2] * w + (t3 \div Limb)
        t1 == f.m[1] * w + (t2 \div Limb)
        d4 == t4 % Limb
        d3 == t3 % Limb
        d2 == t2 % Limb
        s == BitLength(t1) - (LimbBits + 1)
        lo == Pow2(s)
        hi == Pow2(LimbBits - s)
        n1 == t1 \div lo
        n2 == (t1 % lo) * hi + (d2 \div lo)
        n3 == (d2 % lo) * hi + (d3 \div lo)
        n4 == (d3 % lo) * hi + (d4 \div lo)
        cut == d4 % lo
        up == 2 * cut > lo \/ (2 * cut = lo /\ n4 % 2 = 1)
    IN RoundMant(<<n1, n2, n3, n4>>, f.e + s, up)

\* int(f) for a positive double below 2^14: truncation
FloatToInt(f) ==
    IF f.e < 0 THEN 0 ELSE f.m[1] \div Pow2(LimbBits - f.e)

\* math.ceil(f) for a positive double below 2^14
FloatCeil(f) ==
    LET frac == IF f.e < 0 THEN 1
                ELSE (f.m[1] % Pow2(LimbBits - f.e)) + f.m[2] + f.m[3] + f.m[4]
    IN FloatToInt(f) + (IF frac > 0 THEN 1 ELSE 0)

----------------------------------------------------------------------------
(* Resize arithmetic of the loop body *)

\* scale_factor = cell_size / max(orig_w, orig_h)
ScaleFactor(cs, w, h) == FloatDiv(cs, Max(w, h))

\* int(side * scale_factor)
ResizedSide(side, cs, w, h) == FloatToInt(FloatMulInt(side, ScaleFactor(cs, w, h)))

\* (cell_size - new) // 2
PasteOffset(cs, new) == (cs - new) \div 2

----------------------------------------------------------------------------
(* Grid geometry *)

\* the root rounded down, math.floor(math.sqrt(n))
RECURSIVE FloorSqrtFrom(_, _)
FloorSqrtFrom(n, c) == IF (c + 1) * (c + 1) > n THEN c ELSE FloorSqrtFrom(n, c + 1)

CeilSqrt_Floor(n) == FloorSqrtFrom(n, 0)

\* math.ceil(math.sqrt(n)): sqrt is correctly rounded and n < 2^52, so the
\* ceiling of the rounded root is the least c with c * c >= n
RECURSIVE CeilSqrtFrom(_, _)
CeilSqrtFrom(n, c) == IF c * c >= n THEN c ELSE CeilSqrtFrom(n, c + 1)

CeilSqrt(n) == CeilSqrtFrom(n, 0)

\* math.ceil(a / b) for positive ints a, b
CeilDiv(a, b) == FloatCeil(FloatDiv(a, b))

----------------------------------------------------------------------------
(* Strings: sequences of code points *)

\* str.lower on one ASCII character
Lower(c) == IF c >= 65 /\ c <= 90 THEN c + 32 ELSE c

\* f.lower()
LowerStr(str) == [i \in 1..Len(str) |-> Lower(str[i])]

\* str.endswith
EndsWith(str, suffix) ==
    /\ Len(str) >= Len(suffix)
    /\ SubSeq(str, Len(str) - Len(suffix) + 1, Len(str)) = suffix

ExtWebp == <<46, 119, 101, 98, 112>>    \* ".webp"
ExtJpg == <<46, 106, 112, 103>>         \* ".jpg"

\* the filter without lower()
IsImageName_CaseSensitive(f) == EndsWith(f, ExtWebp) \/ EndsWith(f, ExtJpg)

\* f.lower().endswith(".webp") or f.lower().endswith(".jpg")
IsImageName(f) == EndsWith(LowerStr(f), ExtWebp) \/ EndsWith(LowerStr(f), ExtJpg)

\* a < b on str: lexicographic by code point, a proper prefix is smaller
StrLess(a, b) ==
    \E k \in 1..(Len(b)) :
        /\ k <= Len(a) + 1
        /\ \A i \in 1..(k - 1) : a[i] = b[i]
        /\ (k = Len(a) + 1 \/ a[k] < b[k])

\* sorted(...) of a collection of distinct strings
RECURSIVE Sorted(_)
Sorted(S) ==
    IF S = {} THEN << >>
    ELSE LET least == CHOOSE x \in S : \A y \in S \ {x} : StrLess(x, y)
         IN <<least>> \o Sorted(S \ {least})

\* os.path.join(a, b) for a relative b and an a that does not end in "/"
PathJoin(a, b) == a \o <<47>> \o b

----------------------------------------------------------------------------
(* The directory tree: tree[d] is the record of entry d of root_dir, with   *)
(* isdir and, for a directory, the set of names os.listdir returns for it.  *)

RootDir == <<114>>      \* "r"

\* os.listdir(folder) for a subfolder path of root_dir
ListDir(t, folder) ==
    t[CHOOSE d \in DOMAIN t : PathJoin(RootDir, d) = folder].entries

\* lines 15-21: the sorted paths of the immediate subdirectories
Subfolders(t) == Sorted({ PathJoin(RootDir, d) : d \in { x \in DOMAIN t : t[x].isdir } })

\* lines 25-31: the sorted image paths of one folder
FolderImages(t, folder) ==
    Sorted({ PathJoin(folder, f) : f \in { x \in ListDir(t, folder) : IsImageName(x) } })

\* lines 23-32: image_paths.extend(images) over the folders, in order
RECURSIVE ExtendAll(_, _)
ExtendAll(t, folders) ==
    IF folders = << >> THEN << >>
    ELSE FolderImages(t, Head(folders)) \o ExtendAll(t, Tail(folders))

\* get_sorted_image_paths(root_dir): (image_paths, subfolders)
GetSortedImagePaths(t) == << ExtendAll(t, Subfolders(t)), Subfolders(t) >>

\* main, lines 160-167: len(sorted([f for f in os.listdir(folder) if ...]))
FolderCount(t, folder) == Len(Sorted({ f \in ListDir(t, folder) : IsImageName(f) }))

----------------------------------------------------------------------------
(* Canvas and cell arithmetic of create_collage.  Arrays are indexed        *)
(* <<y, x>> from 0, as the numpy arrays are; the channel axis is folded     *)
(* into the pixel value.                                                    *)

Background == 0     \* the pixel (255, 255, 255, 0)

\* lines 57-63: the memmap of shape (collage_height, collage_width, 4), filled
\* with the background
NewCanvas(height, width) ==
    [p \in (0..(height - 1)) \X (0..(width - 1)) |-> Background]

\* lines 83-95: the cell tile of image idx: background, with the resized image
\* of new_w x new_h pixels pasted at (paste_x, paste_y)
CellTile(cs, nw, nh, i) ==
    LET paste_x == PasteOffset(cs, nw)
        paste_y == PasteOffset(cs, nh)
    IN [p \in (0..(cs - 1)) \X (0..(cs - 1)) |->
            IF /\ p[1] >= paste_y /\ p[1] < paste_y + nh
               /\ p[2] >= paste_x /\ p[2] < paste_x + nw
            THEN i + 1 ELSE Background]

\* line 95: the slice of the tile has the shape of the resized array
TileFits(cs, nw, nh) == nw <= cs /\ nh <= cs

\* the row taken as the remainder, like the column
CellRow_Remainder(i, nc) == i % nc

\* lines 98-99
CellRow(i, nc) == i \div nc

CellCol(i, nc) == i % nc

\* line 104, left side: numpy clips the slice
\* [pos_y:pos_y+cell_size, pos_x:pos_x+cell_size] to the array
SliceRegion(arr, pos_x, pos_y, cs) ==
    { p \in (pos_y..(pos_y + cs - 1)) \X (pos_x..(pos_x + cs - 1)) : p \in DOMAIN arr }

\* line 104: the tile can be assigned to the slice when the shapes agree; a
\* tile of one pixel also broadcasts to an empty slice
Broadcastable(region, cs) == Cardinality(region) = cs * cs \/ cs = 1

\* line 104: the assignment
PasteTile(arr, region, pos_x, pos_y, tile) ==
    [p \in DOMAIN arr |->
        IF p \in region THEN tile[<<p[1] - pos_y, p[2] - pos_x>>] ELSE arr[p]]

\* the loop body without its try/except: the exception of an image leaves the run
AfterImage_Propagate(pasted) == IF pasted THEN "loop" ELSE "raised"

\* lines 105-106: the except clause of the loop body prints and the loop goes on
AfterImage(pasted) == "loop"

----------------------------------------------------------------------------
(* Inputs *)

N_a_jpg == <<97, 46, 106, 112, 103>>            \* "a.jpg"
N_B_JPG == <<66, 46, 74, 80, 71>>               \* "B.JPG"
N_c_webp == <<99, 46, 119, 101, 98, 112>>       \* "c.webp"
N_d_WebP == <<100, 46, 87, 101, 98, 80>>        \* "d.WebP"
N_e_png == <<101, 46, 112, 110, 103>>           \* "e.png"
N_dot_jpg == <<46, 106, 112, 103>>              \* ".jpg"
N_jpg == <<106, 112, 103>>                      \* "jpg"
N_z_jpg == <<122, 46, 106, 112, 103>>           \* "z.jpg", a regular file of root_dir
D_a == <<97>>                                   \* "a"
D_B == <<66>>                                   \* "B"
D_ab == <<97, 98>>                              \* "ab"

DirNames == {D_a, D_B, D_ab}
FileNames == {N_a_jpg, N_B_JPG, N_d_WebP, N_jpg}

\* a tree with the directories of D, their entries given by c, and the regular
\* file z.jpg beside them
MkTree(D, c) ==
    [d \in D \cup {N_z_jpg} |->
        IF d \in D THEN [isdir |-> TRUE, entries |-> c[d]]
        ELSE [isdir |-> FALSE, entries |-> {}]]

\* trees of the discovery specification: any of the three directories, each
\* with at most MaxFolderFiles of the file names
MaxFolderFiles == 2
DiscoveryTrees ==
    UNION { { MkTree(D, c) :
                c \in [D -> { F \in SUBSET FileNames : Cardinality(F) <= MaxFolderFiles }] } :
            D \in SUBSET DirNames }

\* trees of a whole run: the folders B and a, holding the first k files of
\* RunFiles, each a pair of a folder and a name
RunFiles == << <<D_B, N_e_png>>, <<D_B, N_B_JPG>>, <<D_a, N_dot_jpg>>,
               <<D_a, N_d_WebP>>, <<D_B, N_a_jpg>>, <<D_B, N_c_webp>>,
               <<D_a, N_a_jpg>> >>
MaxRunFiles == 6
RunTree(k) ==
    MkTree({D_B, D_a},
           [d \in {D_B, D_a} |-> { RunFiles[i][2] : i \in { j \in 1..k : RunFiles[j][1] = d } }])
RunTrees == { RunTree(k) : k \in 0..MaxRunFiles }

RunCellSizes == {0 - 1, 0, 1, 2}
RunSizes == {<<1, 1>>, <<1, 2>>, <<2, 1>>}
Faults == {"none", "decode", "resize", "composite"}

\* cell sizes and image sides of the resize specification
ResizeCellSizes == (1..MaxCell) \cup {DefaultCellSize}
ResizeSides == (1..MaxSide) \cup {97, 100, 400}

----------------------------------------------------------------------------
(* main *)

Msg(kind, path, n) == <<kind, path, n>>

\* lines 151-158: parse_args, get_sorted_image_paths, the header of the report
MainDiscover ==
    /\ pc = "main"
    /\ image_paths' = GetSortedImagePaths(tree)[1]
    /\ subfolders' = GetSortedImagePaths(tree)[2]
    /\ total_count' = 0
    /\ folder_counts' = << >>
    /\ log' = Append(log, Msg("Image counts per folder:", << >>, 0))
    /\ pc' = "count"
    /\ UNCHANGED << entry, tree, cell_size, total_images, ncols, nrows, collage_width,
                    collage_height, temp_file, collage_array, idx, orig_w, orig_h,
                    new_w, new_h, outcomes, collage_image, output_file, exc >>

\* lines 159-169: one turn of the counting loop
MainCountFolder ==
    /\ pc = "count"
    /\ Len(folder_counts) < Len(subfolders)
    /\ LET folder == subfolders[Len(folder_counts) + 1]
           folder_count == FolderCount(tree, folder)
       IN /\ total_count' = total_count + folder_count
          /\ folder_counts' = Append(folder_counts, folder_count)
          /\ log' = Append(log, Msg("images", folder, folder_count))
    /\ UNCHANGED << pc, entry, tree, image_paths, subfolders, cell_size, total_images,
                    ncols, nrows, collage_width, collage_height, temp_file,
                    collage_array, idx, orig_w, orig_h, new_w, new_h, outcomes,
                    collage_image, output_file, exc >>

\* lines 172-176: the total, and the return when it is 0
MainNoImages ==
    /\ pc = "count"
    /\ Len(folder_counts) = Len(subfolders)
    /\ total_count = 0
    /\ log' = log \o << Msg("Total images found:", << >>, total_count),
                        Msg("No .webp or .jpg images found in the provided folders.",
                            << >>, 0) >>
    /\ pc' = "done"
    /\ UNCHANGED << entry, tree, image_paths, subfolders, folder_counts, total_count,
                    cell_size, total_images, ncols, nrows, collage_width,
                    collage_height, temp_file, collage_array, idx, orig_w, orig_h,
                    new_w, new_h, outcomes, collage_image, output_file, exc >>

\* lines 172-179: the total, and the call of create_collage
MainCallCreate ==
    /\ pc = "count"
    /\ Len(folder_counts) = Len(subfolders)
    /\ total_count # 0
    /\ log' = Append(log, Msg("Total images found:", << >>, total_count))
    /\ pc' = "create_collage"
    /\ UNCHANGED << entry, tree, image_paths, subfolders, folder_counts, total_count,
                    cell_size, total_images, ncols, nrows, collage_width,
                    collage_height, temp_file, collage_array, idx, orig_w, orig_h,
                    new_w, new_h, outcomes, collage_image, output_file, exc >>

----------------------------------------------------------------------------
(* create_collage *)

\* the emptiness test made after the temporary file was created
CheckEmpty_Late ==
    /\ pc = "create_collage"
    /\ total_images' = Len(image_paths)
    /\ temp_file' = "exists"
    /\ IF Len(image_paths) = 0
       THEN /\ log' = Append(log, Msg("No images found!", << >>, 0))
            /\ pc' = "done"
       ELSE /\ log' = log
            /\ pc' = "grid"
    /\ UNCHANGED << entry, tree, image_paths, subfolders, folder_counts, total_count,
                    cell_size, ncols, nrows, collage_width, collage_height,
                    collage_array, idx, orig_w, orig_h, new_w, new_h, outcomes,
                    collage_image, output_file, exc >>

\* lines 42-45
CheckEmpty ==
    /\ pc = "create_collage"
    /\ total_images' = Len(image_paths)
    /\ IF Len(image_paths) = 0
       THEN /\ log' = Append(log, Msg("No images found!", << >>, 0))
            /\ pc' = "done"
       ELSE /\ log' = log
            /\ pc' = "grid"
    /\ UNCHANGED << entry, tree, image_paths, subfolders, folder_counts, total_count,
                    cell_size, ncols, nrows, collage_width, collage_height, temp_file,
                    collage_array, idx, orig_w, orig_h, new_w, new_h, outcomes,
                    collage_image, output_file, exc >>

\* lines 47-51
ComputeGrid ==
    /\ pc = "grid"
    /\ ncols' = CeilSqrt(total_images)
    /\ nrows' = CeilDiv(total_images, CeilSqrt(total_images))
    /\ collage_width' = CeilSqrt(total_images) * cell_size
    /\ collage_height' = CeilDiv(total_images, CeilSqrt(total_images)) * cell_size
    /\ pc' = "mktemp"
    /\ UNCHANGED << entry, tree, image_paths, subfolders, folder_counts, total_count,
                    cell_size, total_images, temp_file, collage_array, idx, orig_w,
                    orig_h, new_w, new_h, outcomes, log, collage_image, output_file,
                    exc >>

\* the size of the canvas in bytes, 4 channels of one byte
CanvasBytes == collage_width * collage_height * 4

\* the threshold of the selection policy of the specification, "tens of
\* millions of pixels"
MemoryThreshold == 4 * 10000000

\* a backend selected by the size of the canvas: the temporary file is made
\* only above the threshold
CreateTempFile_Selected ==
    /\ pc = "mktemp"
    /\ temp_file' = IF CanvasBytes > MemoryThreshold THEN "exists" ELSE temp_file
    /\ pc' = "memmap"
    /\ UNCHANGED << entry, tree, image_paths, subfolders, folder_counts, total_count,
                    cell_size, total_images, ncols, nrows, collage_width,
                    collage_height, collage_array, idx, orig_w, orig_h, new_w, new_h,
                    outcomes, log, collage_image, output_file, exc >>

\* lines 55-56: NamedTemporaryFile(delete=False) creates the file, close()
\* leaves it on disk
CreateTempFile ==
    /\ pc = "mktemp"
    /\ temp_file' = "exists"
    /\ pc' = "memmap"
    /\ UNCHANGED << entry, tree, image_paths, subfolders, folder_counts, total_count,
                    cell_size, total_images, ncols, nrows, collage_width,
                    collage_height, collage_array, idx, orig_w, orig_h, new_w, new_h,
                    outcomes, log, collage_image, output_file, exc >>

\* lines 57-63: np.memmap raises ValueError for a shape with a zero or negative
\* dimension, and OSError when the file cannot be grown to the size of the
\* canvas; nothing catches either
AllocCanvas ==
    /\ pc = "memmap"
    /\ \E grown \in BOOLEAN :
        IF cell_size <= 0
        THEN /\ pc' = "raised"
             /\ exc' = "ValueError: memmap"
             /\ UNCHANGED << collage_array, idx >>
        ELSE IF ~grown
        THEN /\ pc' = "raised"
             /\ exc' = "OSError: memmap"
             /\ UNCHANGED << collage_array, idx >>
        ELSE /\ collage_array' = NewCanvas(collage_height, collage_width)
             /\ idx' = 0
             /\ pc' = "loop"
             /\ exc' = exc
    /\ UNCHANGED << entry, tree, image_paths, subfolders, folder_counts, total_count,
                    cell_size, total_images, ncols, nrows, collage_width,
                    collage_height, temp_file, orig_w, orig_h, new_w, new_h, outcomes,
                    log, collage_image, output_file >>

\* lines 66-106: one turn of the loop. The image is opened and converted
\* (decode), resized (Pillow raises ValueError for a side below 1), pasted into
\* its tile and the tile assigned to its slice of the canvas; any exception of
\* the body is caught and printed with the path
ProcessImage ==
    /\ pc = "loop"
    /\ idx < total_images
    /\ \E fault \in Faults, size \in RunSizes :
        LET img_path == image_paths[idx + 1]
            w == size[1]
            h == size[2]
            nw == ResizedSide(w, cell_size, w, h)
            nh == ResizedSide(h, cell_size, w, h)
            decoded == fault # "decode"
            resized == decoded /\ fault # "resize" /\ nw >= 1 /\ nh >= 1
            tiled == resized /\ TileFits(cell_size, nw, nh)
            pos_x == CellCol(idx, ncols) * cell_size
            pos_y == CellRow(idx, ncols) * cell_size
            region == SliceRegion(collage_array, pos_x, pos_y, cell_size)
            pasted == tiled /\ fault # "composite" /\ Broadcastable(region, cell_size)
        IN /\ orig_w' = IF decoded THEN w ELSE orig_w
           /\ orig_h' = IF decoded THEN h ELSE orig_h
           /\ new_w' = IF decoded THEN nw ELSE new_w
           /\ new_h' = IF decoded THEN nh ELSE new_h
           /\ collage_array' =
                IF pasted
                THEN PasteTile(collage_array, region, pos_x, pos_y,
                               CellTile(cell_size, nw, nh, idx))
                ELSE collage_array
           /\ outcomes' = Append(outcomes, IF pasted THEN "ok" ELSE "error")
           /\ log' = IF pasted THEN log
                     ELSE Append(log, Msg("Error processing", img_path, 0))
           /\ pc' = AfterImage(pasted)
           /\ exc' = IF AfterImage(pasted) = "raised" THEN "Exception: image" ELSE exc
    /\ idx' = idx + 1
    /\ UNCHANGED << entry, tree, image_paths, subfolders, folder_counts, total_count,
                    cell_size, total_images, ncols, nrows, collage_width,
                    collage_height, temp_file, collage_image, output_file >>

\* line 109: the loop is over, flush
Flush ==
    /\ pc = "loop"
    /\ idx = total_images
    /\ pc' = "frombuffer"
    /\ UNCHANGED << entry, tree, image_paths, subfolders, folder_counts, total_count,
                    cell_size, total_images, ncols, nrows, collage_width,
                    collage_height, temp_file, collage_array, idx, orig_w, orig_h,
                    new_w, new_h, outcomes, log, collage_image, output_file, exc >>

\* Image.frombuffer without its try/except: its exception leaves the run
FromBuffer_Propagate ==
    /\ pc = "frombuffer"
    /\ \E mapped \in BOOLEAN :
        IF mapped
        THEN /\ collage_image' = "frombuffer"
             /\ pc' = "save"
             /\ exc' = exc
        ELSE /\ collage_image' = collage_image
             /\ pc' = "raised"
             /\ exc' = "Exception: frombuffer"
    /\ UNCHANGED << entry, tree, image_paths, subfolders, folder_counts, total_count,
                    cell_size, total_images, ncols, nrows, collage_width,
                    collage_height, temp_file, collage_array, idx, orig_w, orig_h,
                    new_w, new_h, outcomes, log, output_file >>

\* lines 114-125: Image.frombuffer on the memmap; its exception is caught and
\* printed
FromBuffer ==
    /\ pc = "frombuffer"
    /\ \E mapped \in BOOLEAN :
        IF mapped
        THEN /\ collage_image' = "frombuffer"
             /\ log' = log
             /\ pc' = "save"
        ELSE /\ collage_image' = collage_image
             /\ log' = Append(log, Msg("Error creating image from buffer:", << >>, 0))
             /\ pc' = "fallback"
    /\ UNCHANGED << entry, tree, image_paths, subfolders, folder_counts, total_count,
                    cell_size, total_images, ncols, nrows, collage_width,
                    collage_height, temp_file, collage_array, idx, orig_w, orig_h,
                    new_w, new_h, outcomes, output_file, exc >>

\* lines 126-127: the fallback in the except clause, a full copy of the canvas;
\* an exception of the copy is not caught
Fallback ==
    /\ pc = "fallback"
    /\ \E copied \in BOOLEAN :
        IF copied
        THEN /\ collage_image' = "fromarray"
             /\ pc' = "save"
             /\ exc' = exc
        ELSE /\ collage_image' = collage_image
             /\ pc' = "raised"
             /\ exc' = "MemoryError: fromarray"
    /\ UNCHANGED << entry, tree, image_paths, subfolders, folder_counts, total_count,
                    cell_size, total_images, ncols, nrows, collage_width,
                    collage_height, temp_file, collage_array, idx, orig_w, orig_h,
                    new_w, new_h, outcomes, log, output_file >>

\* lines 130-131: convert("RGB").save(output_path, "WEBP", lossless=True); an
\* exception of the encoder or of the file system is not caught, and may leave
\* a partial file or none
Save ==
    /\ pc = "save"
    /\ \E result \in {"written", "partial", "absent"} :
        IF result = "written"
        THEN /\ output_file' = "written"
             /\ log' = Append(log, Msg("Collage saved to", << >>, 0))
             /\ pc' = "remove"
             /\ exc' = exc
        ELSE /\ output_file' = result
             /\ log' = log
             /\ pc' = "raised"
             /\ exc' = "OSError: save"
    /\ UNCHANGED << entry, tree, image_paths, subfolders, folder_counts, total_count,
                    cell_size, total_images, ncols, nrows, collage_width,
                    collage_height, temp_file, collage_array, idx, orig_w, orig_h,
                    new_w, new_h, outcomes, collage_image >>

\* line 134: os.remove(temp_file.name)
RemoveTemp ==
    /\ pc = "remove"
    /\ temp_file' = "removed"
    /\ pc' = "done"
    /\ UNCHANGED << entry, tree, image_paths, subfolders, folder_counts, total_count,
                    cell_size, total_images, ncols, nrows, collage_width,
                    collage_height, collage_array, idx, orig_w, orig_h, new_w, new_h,
                    outcomes, log, collage_image, output_file, exc >>

\* lines 71-76, on their own: the resize arithmetic for one decoded image
ResizeStep ==
    /\ pc = "resize"
    /\ new_w' = ResizedSide(orig_w, cell_size, orig_w, orig_h)
    /\ new_h' = ResizedSide(orig_h, cell_size, orig_w, orig_h)
    /\ pc' = "resized"
    /\ UNCHANGED << entry, tree, image_paths, subfolders, folder_counts, total_count,
                    cell_size, total_images, ncols, nrows, collage_width,
                    collage_height, temp_file, collage_array, idx, orig_w, orig_h,
                    outcomes, log, collage_image, output_file, exc >>

----------------------------------------------------------------------------
(* Specifications *)

InitWith(p, e, t, paths, cs, n, w, h) ==
    /\ pc = p
    /\ entry = e
    /\ tree = t
    /\ image_paths = paths
    /\ subfolders = << >>
    /\ folder_counts = << >>
    /\ total_count = 0
    /\ cell_size = cs
    /\ total_images = n
    /\ ncols = 0
    /\ nrows = 0
    /\ collage_width = 0
    /\ collage_height = 0
    /\ temp_file = "none"
    /\ collage_array = << >>
    /\ idx = 0
    /\ orig_w = w
    /\ orig_h = h
    /\ new_w = 0
    /\ new_h = 0
    /\ outcomes = << >>
    /\ log = << >>
    /\ collage_image = "none"
    /\ output_file = "absent"
    /\ exc = "none"

EmptyTree == MkTree({}, << >>)

\* a whole run: main on a tree, or create_collage called with the paths of one
Init ==
    \E t \in RunTrees, cs \in RunCellSizes :
        \/ InitWith("main", "main", t, << >>, cs, 0, 0, 0)
        \/ InitWith("create_collage", "create_collage", t,
                    GetSortedImagePaths(t)[1], cs, 0, 0, 0)

Next ==
    \/ MainDiscover
    \/ MainCountFolder
    \/ MainNoImages
    \/ MainCallCreate
    \/ CheckEmpty
    \/ ComputeGrid
    \/ CreateTempFile
    \/ AllocCanvas
    \/ ProcessImage
    \/ Flush
    \/ FromBuffer
    \/ Fallback
    \/ Save
    \/ RemoveTemp

Spec == Init /\ [][Next]_vars

\* discovery and the report of main, on every tree of DiscoveryTrees
InitDiscovery ==
    \E t \in DiscoveryTrees : InitWith("main", "main", t, << >>, DefaultCellSize, 0, 0, 0)

NextDiscovery ==
    \/ MainDiscover
    \/ MainCountFolder
    \/ MainNoImages
    \/ MainCallCreate

SpecDiscovery == InitDiscovery /\ [][NextDiscovery]_vars

\* the grid geometry, for every count and cell size of the bounds
InitGrid ==
    \E n \in 1..MaxItems, cs \in 1..MaxGridCell :
        InitWith("grid", "create_collage", EmptyTree, << >>, cs, n, 0, 0)

NextGrid == ComputeGrid

SpecGrid == InitGrid /\ [][NextGrid]_vars

\* the resize arithmetic, for every image size and cell size of the bounds
InitResize ==
    \E w \in ResizeSides, h \in ResizeSides, cs \in ResizeCellSizes :
        InitWith("resize", "create_collage", EmptyTree, << >>, cs, 1, w, h)

NextResize == ResizeStep

SpecResize == InitResize /\ [][NextResize]_vars

----------------------------------------------------------------------------
(* Properties *)

Terminal == pc \in {"done", "raised"}

Allocated == DOMAIN collage_array # {}

Logged(m) == \E k \in 1..Len(log) : log[k] = m

\* the cell rectangle of placement index i, as a set of <<y, x>>
CellRect(i) ==
    LET x0 == (i % ncols) * cell_size
        y0 == (i \div ncols) * cell_size
    IN (y0..(y0 + cell_size - 1)) \X (x0..(x0 + cell_size - 1))

\* the name ends, case-insensitively, in .webp or .jpg
Matches(f) ==
    \E ext \in {ExtWebp, ExtJpg} :
        /\ Len(f) >= Len(ext)
        /\ \A k \in 1..Len(ext) : Lower(f[Len(f) - Len(ext) + k]) = ext[k]

(* C1 *)
\* what holds of the images attempted so far
C1_State ==
    Allocated =>
        /\ Len(outcomes) = idx
        /\ idx <= total_images
        /\ pc \in {"frombuffer", "fallback", "save", "remove", "done"} => idx = total_images
        /\ pc = "raised" => idx = total_images
        /\ \A i \in 0..(idx - 1) :
            outcomes[i + 1] = "error" =>
                /\ \A p \in CellRect(i) : collage_array[p] = Background
                /\ Logged(Msg("Error processing", image_paths[i + 1], 0))

\* what one turn of the loop does
C1_Step ==
    (pc = "loop" /\ idx < total_images) =>
        /\ pc' = "loop"
        /\ idx' = idx + 1
        /\ exc' = "none"
        /\ outcomes'[idx + 1] = "error" =>
            /\ collage_array' = collage_array
            /\ log' = Append(log, Msg("Error processing", image_paths[idx + 1], 0))

\* C1: a failing image is caught and logged with its path, leaves the canvas as
\* it was (its cell stays background), and the loop goes on with the next
\* image until all were attempted; no image failure leaves the run.
C1_FailureIsLocal == [](C1_State) /\ [][C1_Step]_vars

\* five images, the third fails, the others are pasted, the run is at the encoder
C1_Witness ==
    /\ pc = "save"
    /\ total_images = 5
    /\ outcomes = <<"ok", "ok", "error", "ok", "ok">>

(* C2 *)
\* C2: the temporary file exists before the first cell write and is deleted on
\* every exit path: no terminal state still has it.
C2_TempFileReleased ==
    /\ Allocated => temp_file # "none"
    /\ Terminal => temp_file # "exists"

(* C3 *)
\* C3: columns = ceil(sqrt(n)), rows = ceil(n / columns), the canvas is columns
\* by rows cells, the grid holds every image, has no empty last row, and has
\* at least as many columns as rows.
C3_GridGeometry ==
    pc = "mktemp" =>
        /\ ncols >= 1
        /\ (ncols - 1) * (ncols - 1) < total_images
        /\ total_images <= ncols * ncols
        /\ nrows >= 1
        /\ ncols * (nrows - 1) < total_images
        /\ total_images <= ncols * nrows
        /\ collage_width = ncols * cell_size
        /\ collage_height = nrows * cell_size
        /\ ncols >= nrows

C3_Witness ==
    /\ pc = "mktemp"
    /\ total_images = 17
    /\ ncols = 5
    /\ nrows = 4
    /\ collage_width = 5 * cell_size

(* C4 *)
\* C4: with an empty placement sequence the run prints a message and ends
\* normally, with no temporary file, no canvas and no output file, through
\* main and through a direct call of create_collage.
C4_EmptyIsNoOp ==
    (image_paths = << >> /\ (entry = "create_collage" \/ pc # "main")) =>
        /\ temp_file = "none"
        /\ ~Allocated
        /\ output_file = "absent"
        /\ exc = "none"
        /\ pc \in {"count", "create_collage", "done"}
        /\ (pc = "done" /\ entry = "create_collage") => Logged(Msg("No images found!", << >>, 0))
        /\ (pc = "done" /\ entry = "main") =>
            Logged(Msg("No .webp or .jpg images found in the provided folders.", << >>, 0))

C4_Witness ==
    /\ pc = "done"
    /\ entry = "create_collage"
    /\ image_paths = << >>
    /\ log = << Msg("No images found!", << >>, 0) >>

(* C5 *)
\* C5: a cell_size of zero or below fails with a ConfigError before anything
\* is done: no temporary file, no canvas, no image decoded, no output file.
\* (The error is asked only of a run that has images: a run without any may
\* end as C4 says.)
C5_NonPositiveCellSizeRejected ==
    cell_size <= 0 =>
        /\ temp_file = "none"
        /\ ~Allocated
        /\ outcomes = << >>
        /\ output_file = "absent"
        /\ (Terminal /\ image_paths # << >>) => exc = "ConfigError"

C7_ResizeExact ==
    pc = "resized" =>
        LET longest == Max(orig_w, orig_h)
        IN /\ new_w = (orig_w * cell_size) \div longest
           /\ new_h = (orig_h * cell_size) \div longest
           /\ Max(new_w, new_h) = cell_size
           /\ new_w >= 1 /\ new_w <= cell_size
           /\ new_h >= 1 /\ new_h <= cell_size

(* C8 *)
\* the rectangles of the grid
C8_State ==
    Allocated =>
        /\ \A i \in 0..(total_images - 1) :
            /\ i \div ncols < nrows
            /\ CellRect(i) \subseteq DOMAIN collage_array
        /\ \A i, j \in 0..(total_images - 1) :
            i # j => CellRect(i) \cap CellRect(j) = {}

\* what one turn of the loop writes
C8_Step ==
    (pc = "loop" /\ idx < total_images) =>
        /\ \A p \in DOMAIN collage_array :
            collage_array'[p] # collage_array[p] => p \in CellRect(idx)
        /\ outcomes'[idx + 1] = "ok" =>
            LET x0 == (idx % ncols) * cell_size
                y0 == (idx \div ncols) * cell_size
                tile == CellTile(cell_size, new_w', new_h', idx)
            IN /\ \A p \in CellRect(idx) :
                    collage_array'[p] = tile[<<p[1] - y0, p[2] - x0>>]
               /\ \E p \in CellRect(idx) : collage_array'[p] = idx + 1

\* C8: image i is written to the cell rectangle at ((i % columns) * cell_size,
\* (i // columns) * cell_size); the rectangles lie inside the canvas, do not
\* overlap, and a write changes no pixel outside its rectangle.
C8_CellPlacement == [](C8_State) /\ [][C8_Step]_vars

\* five images of cell size 2: the fifth fills the cell at row 1, column 1, the
\* first the cell at row 0, column 0
C8_Witness ==
    /\ pc = "loop"
    /\ total_images = 5
    /\ idx = 5
    /\ cell_size = 2
    /\ collage_array[<<2, 2>>] = 5
    /\ collage_array[<<3, 3>>] = 5
    /\ collage_array[<<0, 0>>] = 1
    /\ collage_array[<<2, 4>>] = Background

(* C9 *)
\* C9: image_paths is the concatenation, over the subdirectories in ascending
\* path order, of the matching names of each in ascending name order; a
\* subdirectory without a match is in the folder list with count 0, and the
\* counts of main add up to the length of the sequence.
C9_Discovery ==
    pc # "main" =>
        LET dirs == { d \in DOMAIN tree : tree[d].isdir }
            pairs == { e \in dirs \X FileNames : e[2] \in tree[e[1]].entries /\ Matches(e[2]) }
            PathOf(e) == PathJoin(PathJoin(RootDir, e[1]), e[2])
            PairAt(i) == CHOOSE e \in pairs : PathOf(e) = image_paths[i]
            Before(x, y) ==
                \/ StrLess(PathJoin(RootDir, x[1]), PathJoin(RootDir, y[1]))
                \/ x[1] = y[1] /\ StrLess(x[2], y[2])
        IN /\ Len(subfolders) = Cardinality(dirs)
           /\ { subfolders[i] : i \in 1..Len(subfolders) } = { PathJoin(RootDir, d) : d \in dirs }
           /\ \A i, j \in 1..Len(subfolders) : i < j => StrLess(subfolders[i], subfolders[j])
           /\ Len(image_paths) = Cardinality(pairs)
           /\ \A i \in 1..Len(image_paths) : \E e \in pairs : PathOf(e) = image_paths[i]
           /\ \A i, j \in 1..Len(image_paths) : i < j => Before(PairAt(i), PairAt(j))
           /\ \A k \in 1..Len(folder_counts) :
                /\ folder_counts[k] = Cardinality({ e \in pairs : PathJoin(RootDir, e[1]) = subfolders[k] })
                /\ Logged(Msg("images", subfolders[k], folder_counts[k]))
           /\ pc \in {"done", "create_collage"} =>
                /\ Len(folder_counts) = Len(subfolders)
                /\ total_count = Len(image_paths)

\* three folders, B with two images in upper and mixed case, a with none, ab
\* with two
C9_Witness ==
    /\ pc = "create_collage"
    /\ subfolders = << PathJoin(RootDir, D_B), PathJoin(RootDir, D_a), PathJoin(RootDir, D_ab) >>
    /\ folder_counts = <<2, 0, 2>>
    /\ tree[D_a].entries = {N_jpg}
    /\ image_paths[1] = PathJoin(PathJoin(RootDir, D_B), N_B_JPG)
    /\ image_paths[2] = PathJoin(PathJoin(RootDir, D_B), N_d_WebP)
    /\ image_paths[3] = PathJoin(PathJoin(RootDir, D_ab), N_B_JPG)
    /\ image_paths[4] = PathJoin(PathJoin(RootDir, D_ab), N_a_jpg)

(* C10 *)
\* where a run can be once the zero-copy conversion failed
C10_State ==
    LET failed == Logged(Msg("Error creating image from buffer:", << >>, 0))
    IN /\ exc # "Exception: frombuffer"
       /\ failed =>
            \/ pc = "fallback" /\ collage_image = "none"
            \/ pc \in {"save", "remove", "done"} /\ collage_image = "fromarray"
            \/ pc = "raised" /\ exc = "MemoryError: fromarray" /\ collage_image = "none"
            \/ pc = "raised" /\ exc = "OSError: save" /\ collage_image = "fromarray"
       /\ (Allocated /\ pc \in {"save", "remove", "done"}) =>
            collage_image \in {"frombuffer", "fromarray"}
       /\ collage_image = "fromarray" => failed

\* the step after Image.frombuffer
C10_Step ==
    (pc = "frombuffer") => (pc' \in {"save", "fallback"} /\ exc' = "none"
                            /\ collage_array' = collage_array)

====
